---- MODULE Spec2Model ----
(***************************************************************************)
(* The PassCode component (lib/main.tsx, a row of single-character cells   *)
(* over one code array) as a state machine.                                *)
(*                                                                         *)
(* A JavaScript string is a sequence of UTF-16 code units, so that         *)
(* String.length, String.slice and index access (all in code units) and    *)
(* Array.from (by code point) are each modelled by what they do.  Array    *)
(* indices are 0-based as in the source; At and SetAt translate them.      *)
(***************************************************************************)
EXTENDS Integers, Sequences, FiniteSets, TLC

\* ------------------------------------------------------------- bounds
MaxDigits == 2      \* cells declared at first mount: 1..MaxDigits
MaxChildren == 2    \* length of a child list the caller passes later
MaxPaste == 3       \* code units in a clipboard text
MaxBatch == 2       \* setCode calls that may wait for one render

\* ------------------------------------------------------------ strings
HighSurrogate == "D83D"
LowSurrogate == "DE00"
EmptyString == <<>>
\* the value of a hole or of an index past the end of an array
Undefined == <<"undefined">>
Backspace == <<"B", "a", "c", "k", "s", "p", "a", "c", "e">>
Enter == <<"E", "n", "t", "e", "r">>
\* one code point outside the BMP: a key string of length 2
AstralKey == <<HighSurrogate, LowSurrogate>>

KeyValues == {Backspace, Enter, AstralKey, <<"1">>, <<"v">>}
ClipboardUnits == {"1", HighSurrogate, LowSurrogate}
ClipboardTexts == UNION {[1..n -> ClipboardUnits] : n \in 0..MaxPaste}
\* what the browser would put in a cell edited without a keydown or a paste
\* (composition, autofill, drop, cut): a character or nothing
ChangeValues == {<<"1">>, EmptyString}

ChildTypes == {"PassCodeInput", "div"}
ChildLists == UNION {[1..n -> ChildTypes] : n \in 1..MaxChildren}
\* the child lists of a first render
InitialChildLists == UNION {[1..n -> ChildTypes] : n \in 1..MaxDigits}

\* document.activeElement is none of the cells
NoFocus == -1

\* Number(target.dataset.index) of a target with no data-index, or with one that
\* is no numeral.  NaN is written as an integer far from every index: like NaN,
\* it is not greater than 0, it names no child of the container and no element
\* of an array, and adding or subtracting 1 leaves it so.
NaN == -1000

VARIABLES
    numberOfDigits,   \* useState(Children.count(children)): fixed at first mount
    code,             \* the committed value of the code state hook
    queue,            \* updates handed to setCode and not yet applied by a render
    children,         \* props.children of the latest render (the type of each child)
    mounted,          \* FALSE once a render has thrown
    focus,            \* index of the focused cell in the container, or NoFocus
    event,            \* the event being dispatched (NoEvent between events)
    onCompleteCalls,  \* arguments of the completion callback's invocations, in order
    alphanumeric,     \* props.alphanumeric (default true), handed down by the context
    cells,            \* the input elements in the container, as last rendered
    twin,             \* a second instance over the same children, with the other flag
    history           \* the code before the character typed last, while it is tracked

vars ==
    <<numberOfDigits, code, queue, children, mounted, focus, event, onCompleteCalls,
      alphanumeric, cells, twin, history>>

\* ------------------------------------------------------- array helpers
Min(a, b) == IF a < b THEN a ELSE b

\* arr[i]
At(arr, i) == IF i \in 0..(Len(arr) - 1) THEN arr[i + 1] ELSE Undefined

\* arr[i] = v, for an integer i: a write past the end extends the array over holes;
\* a negative index adds a property and leaves the elements alone
SetAt(arr, i, v) ==
    IF i < 0 THEN arr
    ELSE IF i < Len(arr) THEN [arr EXCEPT ![i + 1] = v]
    ELSE arr \o [k \in 1..(i - Len(arr)) |-> Undefined] \o <<v>>

\* s.slice(0, n)
SliceFromStart(s, n) == SubSeq(s, 1, Min(n, Len(s)))

\* s[i] ?? ""
CharOrEmpty(s, i) == IF i \in 0..(Len(s) - 1) THEN <<s[i + 1]>> ELSE EmptyString

\* Array.from(s): the string iterator yields code points, a high surrogate
\* followed by a low surrogate being one element of two code units
RECURSIVE ArrayFrom(_)
ArrayFrom(s) ==
    IF s = <<>> THEN <<>>
    ELSE IF Len(s) >= 2 /\ s[1] = HighSurrogate /\ s[2] = LowSurrogate
         THEN <<SubSeq(s, 1, 2)>> \o ArrayFrom(SubSeq(s, 3, Len(s)))
         ELSE <<SubSeq(s, 1, 1)>> \o ArrayFrom(Tail(s))

\* ------------------------------------------------------------- events
NoEvent ==
    [type |-> "none", index |-> NoFocus, key |-> EmptyString, metaKey |-> FALSE,
     ctrlKey |-> FALSE, text |-> EmptyString, defaultPrevented |-> FALSE,
     thrown |-> FALSE]

KeyboardEvent(index, key, metaKey, ctrlKey, prevented) ==
    [type |-> "keydown", index |-> index, key |-> key, metaKey |-> metaKey,
     ctrlKey |-> ctrlKey, text |-> EmptyString, defaultPrevented |-> prevented,
     thrown |-> FALSE]

\* a keydown whose handler threw after event.preventDefault()
ThrownKeyboardEvent(index, key, metaKey, ctrlKey) ==
    [KeyboardEvent(index, key, metaKey, ctrlKey, TRUE) EXCEPT !.thrown = TRUE]

ClipboardEvent(index, text) ==
    [type |-> "paste", index |-> index, key |-> EmptyString, metaKey |-> FALSE,
     ctrlKey |-> FALSE, text |-> text, defaultPrevented |-> TRUE, thrown |-> FALSE]

\* the change event of a cell whose edited text is value
ChangeEvent(index, value) ==
    [type |-> "change", index |-> index, key |-> EmptyString, metaKey |-> FALSE,
     ctrlKey |-> FALSE, text |-> value, defaultPrevented |-> TRUE, thrown |-> FALSE]

\* ------------------------------------------------------ two instances
\* Two instances of the component share the variables above by turns: twin
\* holds the state of the instance that is waiting, whose turn it is, and the
\* event the first instance has handled and the second is still to receive.
NoTwin ==
    [active |-> FALSE, turn |-> "first", replay |-> NoEvent, code |-> <<>>,
     focus |-> NoFocus, alphanumeric |-> FALSE]

\* ------------------------------------------------------------- history
\* nothing is tracked
NoHistory == [stage |-> "none", index |-> NoFocus, code |-> <<>>]

\* ----------------------------------------------------- the code state
\* the three arguments setCode is called with
ValueUpdate(next) ==
    [kind |-> "value", value |-> next, index |-> 0, key |-> EmptyString]
BackspaceUpdater(index) ==
    [kind |-> "backspace", value |-> <<>>, index |-> index, key |-> EmptyString]
CharUpdater(index, keyPressed) ==
    [kind |-> "char", value |-> <<>>, index |-> index, key |-> keyPressed]

\* mutation: only the cell before the target is cleared
BackspaceNext_PreviousOnly(prev, index) ==
    IF index > 0 THEN SetAt(prev, index - 1, EmptyString) ELSE prev

\* mutation: the cell before the target is not cleared
BackspaceNext_CurrentOnly(prev, index) == SetAt(prev, index, EmptyString)

\* (prev) => { next = [...prev]; next[index] = ""; if (index > 0) next[index-1] = "" }
BackspaceNext(prev, index) ==
    LET next == SetAt(prev, index, EmptyString)
    IN  IF index > 0 THEN SetAt(next, index - 1, EmptyString) ELSE next

\* mutation: the character is written to the cell that takes focus
CharNext_NextCell(prev, index, keyPressed) == SetAt(prev, index + 1, keyPressed)

\* (prev) => { next = [...prev]; next[index] = keyPressed }
CharNext(prev, index, keyPressed) == SetAt(prev, index, keyPressed)

ApplyUpdate(prev, u) ==
    CASE u.kind = "value" -> u.value
      [] u.kind = "backspace" -> BackspaceNext(prev, u.index)
      [] u.kind = "char" -> CharNext(prev, u.index, u.key)

\* React runs the queued updates in order when it renders
RECURSIVE ApplyQueue(_, _)
ApplyQueue(prev, q) ==
    IF q = <<>> THEN prev ELSE ApplyQueue(ApplyUpdate(prev, Head(q)), Tail(q))

\* ----------------------------------------------------------- rendering
\* mutation: any child is cloned
IsPassCodeInput_AnyChild(child) == TRUE

\* jsx.type !== PassCodeInput, negated
IsPassCodeInput(child) == child = "PassCodeInput"

\* the <input> of a cell: data-index, value and the keyboard hint
PassCodeInput(index, value) ==
    [dataIndex |-> index, value |-> value,
     inputMode |-> IF alphanumeric THEN "text" ELSE "numeric"]

\* cloneElement(child, {key: index, index, onKeyDown, onPaste, value: code[index]}),
\* for the code c of the render
renderChild(child, index, c) == PassCodeInput(index, At(c, index))

\* some call of renderChild throws
RenderThrows(list) == \E k \in 1..Len(list) : ~IsPassCodeInput(list[k])

\* Children.map(children, renderChild)
RenderChildren(list, c) == [k \in 1..Len(list) |-> renderChild(list[k], k - 1, c)]

\* --------------------------------------------------------------- focus
\* the input elements of the container, one per rendered child
Cells == IF mounted THEN Len(children) ELSE 0

\* mutation: a request for a cell that does not exist takes focus off the cells
moveFocus_Blurs(index) == IF index \in 0..(Cells - 1) THEN index ELSE NoFocus

\* mutation: the focus request is left for after the render
moveFocus_Deferred(index) == focus

\* mutation: focus is requested without looking the cell up
moveFocus_Unclamped(index) == index

\* the focused cell after moveFocus(index)
moveFocus(index) == IF index \in 0..(Cells - 1) THEN index ELSE focus

\* --------------------------------------------------------------- paste
\* if (index === undefined || isNaN(index)) return;
PasteReturnsEarly(index) == index = NaN

\* Array.from(pasted.slice(0, numberOfDigits))
PasteWhole(pasted) == ArrayFrom(SliceFromStart(pasted, numberOfDigits))

\* for (let i = index; i < numberOfDigits; i++) next[i] = pasted[i - index] ?? ""
RECURSIVE PasteLoop(_, _, _, _)
PasteLoop(next, i, index, pasted) ==
    IF i < numberOfDigits
    THEN PasteLoop(SetAt(next, i, CharOrEmpty(pasted, i - index)), i + 1, index, pasted)
    ELSE next

\* mutation: next starts as an array of empty strings instead of a copy of code
PasteFrom_FreshArray(index, pasted) ==
    PasteLoop([k \in 1..Len(code) |-> EmptyString], index, index, pasted)

\* const next = [...code]; for (...) ...
PasteFrom(index, pasted) == PasteLoop(code, index, index, pasted)

\* ----------------------------------------------------------------- key
\* mutation: the V key is let through whatever the modifier
ReturnsEarly_VKey(key, metaKey) == key = <<"v">>

\* if (event.metaKey && event.key === "v") return; if (event.metaKey) return;
ReturnsEarly(key, metaKey) == (metaKey /\ key = <<"v">>) \/ metaKey

\* mutation: the missing index is tested for as NaN
IndexNotFound_NaN(index) == index = NaN

\* index === undefined, for index = Number(...): a number is never undefined
IndexNotFound(index) == FALSE

\* keyPressed === "Backspace"
isBackspace(keyPressed) == keyPressed = Backspace

\* mutation: without the flag only a digit is taken for a character
IsSingleUnit_DigitsWhenNumeric(keyPressed) ==
    Len(keyPressed) = 1 /\ (alphanumeric \/ keyPressed = <<"1">>)

\* mutation: any non-empty key string is taken for a character
IsSingleUnit_NonEmpty(keyPressed) == Len(keyPressed) >= 1

\* keyPressed.length === 1
IsSingleUnit(keyPressed) == Len(keyPressed) = 1

\* -------------------------------------------------------------- change
\* mutation: the cell stores what was typed in it
onChange_Stores(index, value) == <<CharUpdater(index, value)>>

\* onChange={(event) => event.preventDefault()}: the calls of setCode it makes
onChange(index, value) == <<>>

\* ------------------------------------------------------------- actions
\* mutation: the code starts as an empty array, useState<string[]>([])
Init_EmptyArray ==
    /\ children \in InitialChildLists
    /\ alphanumeric \in BOOLEAN
    /\ numberOfDigits = Len(children)
    /\ mounted = ~RenderThrows(children)
    /\ code = <<>>
    /\ cells = IF mounted THEN RenderChildren(children, code) ELSE <<>>
    /\ queue = <<>>
    /\ focus = NoFocus
    /\ event = NoEvent
    /\ onCompleteCalls = <<>>
    /\ twin = NoTwin
    /\ history = NoHistory

\* the first render: it throws, and nothing is mounted, when a child is no cell
Init ==
    /\ children \in InitialChildLists
    /\ alphanumeric \in BOOLEAN
    /\ numberOfDigits = Len(children)
    /\ mounted = ~RenderThrows(children)
    /\ code = IF mounted THEN [k \in 1..numberOfDigits |-> EmptyString] ELSE <<>>
    /\ cells = IF mounted THEN RenderChildren(children, code) ELSE <<>>
    /\ queue = <<>>
    /\ focus = NoFocus
    /\ event = NoEvent
    /\ onCompleteCalls = <<>>
    /\ twin = NoTwin
    /\ history = NoHistory

\* An event reaches a handler from the focused cell, with that cell's data-index,
\* or from a target that carries no usable data-index.
Delivered(index) ==
    index = NaN \/ (focus \in 0..(Cells - 1) /\ cells[focus + 1].dataIndex = index)

\* the user puts the caret in cell i (click, tap)
FocusCell(i) ==
    /\ event = NoEvent
    /\ i \in 0..(Cells - 1)
    /\ focus' = i
    /\ UNCHANGED <<numberOfDigits, code, queue, children, mounted, event, onCompleteCalls,
                   alphanumeric, cells, twin, history>>

\* handleKeyDown, for a keydown on a target whose Number(dataset.index) is index
KeyDown(index, key, metaKey, ctrlKey) ==
    /\ mounted
    /\ Delivered(index)
    /\ IF ReturnsEarly(key, metaKey)
       THEN /\ event' = KeyboardEvent(index, key, metaKey, ctrlKey, FALSE)
            /\ UNCHANGED <<focus, queue>>
       ELSE IF IndexNotFound(index)
       THEN /\ event' = ThrownKeyboardEvent(index, key, metaKey, ctrlKey)
            /\ UNCHANGED <<focus, queue>>
       ELSE /\ event' = KeyboardEvent(index, key, metaKey, ctrlKey, TRUE)
            /\ IF isBackspace(key)
               THEN /\ focus' = moveFocus(index - 1)
                    /\ queue' = Append(queue, BackspaceUpdater(index))
               ELSE IF IsSingleUnit(key)
               THEN /\ focus' = moveFocus(index + 1)
                    /\ queue' = Append(queue, CharUpdater(index, key))
               ELSE UNCHANGED <<focus, queue>>
    /\ UNCHANGED <<numberOfDigits, code, children, mounted, onCompleteCalls,
                   alphanumeric, cells>>

\* a keydown delivered after the render of the event before it
HandleKeyDown(index, key, metaKey, ctrlKey) ==
    event = NoEvent /\ KeyDown(index, key, metaKey, ctrlKey) /\ UNCHANGED <<twin, history>>

\* handlePaste, for a paste on a target whose Number(dataset.index) is index;
\* code is the code of the last render, which the callback closes over
Paste(index, pasted) ==
    /\ mounted
    /\ Delivered(index)
    /\ event' = ClipboardEvent(index, pasted)
    /\ IF PasteReturnsEarly(index)
       THEN UNCHANGED <<focus, queue>>
       ELSE IF Len(pasted) >= numberOfDigits
       THEN /\ focus' = moveFocus(numberOfDigits - 1)
            /\ queue' = Append(queue, ValueUpdate(PasteWhole(pasted)))
       ELSE /\ focus' = moveFocus(index + Len(pasted))
            /\ queue' = Append(queue, ValueUpdate(PasteFrom(index, pasted)))
    /\ UNCHANGED <<numberOfDigits, code, children, mounted, onCompleteCalls,
                   alphanumeric, cells>>

\* a paste delivered after the render of the event before it
HandlePaste(index, pasted) ==
    event = NoEvent /\ Paste(index, pasted) /\ UNCHANGED <<twin, history>>

\* change on the focused cell, whose data-index is index
HandleChange(index, value) ==
    /\ event = NoEvent
    /\ mounted
    /\ index # NaN
    /\ Delivered(index)
    /\ event' = ChangeEvent(index, value)
    /\ queue' = queue \o onChange(index, value)
    /\ UNCHANGED <<numberOfDigits, code, children, mounted, focus, onCompleteCalls,
                   alphanumeric, cells, twin, history>>

\* The handler has returned and React ends the dispatch of the event: the updates
\* queued by setCode, if any, become the code and the cells are rendered with it.
\* Key, paste and change events are discrete events, whose updates React applies
\* before the next event is delivered.
Render ==
    /\ event # NoEvent
    /\ code' = ApplyQueue(code, queue)
    /\ queue' = <<>>
    /\ event' = NoEvent
    /\ cells' = RenderChildren(children, code')
    /\ UNCHANGED <<numberOfDigits, children, mounted, focus, onCompleteCalls, alphanumeric,
                   twin, history>>

\* the caller renders the component again with another child list
SetChildren(list) ==
    /\ mounted
    /\ event = NoEvent
    /\ list # children
    /\ children' = list
    /\ IF RenderThrows(list)
       THEN \* renderChild throws: the tree is unmounted and its state dropped
            /\ mounted' = FALSE
            /\ code' = <<>>
            /\ focus' = NoFocus
            /\ cells' = <<>>
       ELSE /\ mounted' = TRUE
            /\ code' = code
            /\ focus' = IF focus < Len(list) THEN focus ELSE NoFocus
            /\ cells' = RenderChildren(list, code)
    /\ UNCHANGED <<numberOfDigits, queue, event, onCompleteCalls, alphanumeric, twin,
                   history>>

Next ==
    \/ \E i \in 0..(MaxChildren - 1) : FocusCell(i)
    \/ \E index \in 0..(MaxChildren - 1), key \in KeyValues, metaKey \in BOOLEAN,
          ctrlKey \in BOOLEAN : HandleKeyDown(index, key, metaKey, ctrlKey)
    \/ \E index \in 0..(MaxChildren - 1), pasted \in ClipboardTexts :
          HandlePaste(index, pasted)
    \/ \E index \in 0..(MaxChildren - 1), value \in ChangeValues :
          HandleChange(index, value)
    \/ Render
    \/ \E list \in ChildLists : SetChildren(list)

Spec == Init /\ [][Next]_vars

\* The same component when events may also come from a target without a usable
\* data-index (the handlers read the index from the DOM, not from a closure).
NextUntagged ==
    \/ Next
    \/ \E key \in KeyValues, metaKey \in BOOLEAN, ctrlKey \in BOOLEAN :
          HandleKeyDown(NaN, key, metaKey, ctrlKey)
    \/ \E pasted \in ClipboardTexts : HandlePaste(NaN, pasted)

SpecUntagged == Init /\ [][NextUntagged]_vars

\* An event delivered while an update of an earlier event still waits for its
\* render: events dispatched one after the other by one script (a test, an
\* autofill) reach the handlers of the same render.
InBatch == event # NoEvent /\ queue # <<>> /\ Len(queue) < MaxBatch

HandleKeyDownInBatch(index, key, metaKey, ctrlKey) ==
    InBatch /\ index # NaN /\ KeyDown(index, key, metaKey, ctrlKey) /\ UNCHANGED <<twin, history>>

HandlePasteInBatch(index, pasted) ==
    InBatch /\ index # NaN /\ Paste(index, pasted) /\ UNCHANGED <<twin, history>>

NextBatched ==
    \/ Next
    \/ \E index \in 0..(MaxChildren - 1), key \in KeyValues, metaKey \in BOOLEAN,
          ctrlKey \in BOOLEAN : HandleKeyDownInBatch(index, key, metaKey, ctrlKey)
    \/ \E index \in 0..(MaxChildren - 1), pasted \in ClipboardTexts :
          HandlePasteInBatch(index, pasted)

SpecBatched == Init /\ [][NextBatched]_vars

\* Two instances with the same children, one with alphanumeric and one without,
\* that receive the same key and paste events: the first handles an event and
\* renders, then the second handles the same event and renders.
InitTwin ==
    /\ children \in InitialChildLists
    /\ ~RenderThrows(children)
    /\ alphanumeric = TRUE
    /\ numberOfDigits = Len(children)
    /\ mounted = TRUE
    /\ code = [k \in 1..numberOfDigits |-> EmptyString]
    /\ cells = RenderChildren(children, code)
    /\ queue = <<>>
    /\ focus = NoFocus
    /\ event = NoEvent
    /\ onCompleteCalls = <<>>
    /\ twin = [NoTwin EXCEPT !.active = TRUE, !.code = code]
    /\ history = NoHistory

\* the event is new to the first instance and is the recorded one for the second
Replayed(e) ==
    IF twin.turn = "first" THEN twin.replay = NoEvent
    ELSE [e EXCEPT !.defaultPrevented = FALSE, !.thrown = FALSE] = twin.replay

Recorded(e) ==
    IF twin.turn = "first"
    THEN [twin EXCEPT !.replay = [e EXCEPT !.defaultPrevented = FALSE, !.thrown = FALSE]]
    ELSE [twin EXCEPT !.replay = NoEvent]

\* the user puts the caret in cell i of both instances
TwinFocusCell(i) ==
    /\ twin.active
    /\ twin.turn = "first"
    /\ twin.replay = NoEvent
    /\ event = NoEvent
    /\ i \in 0..(Cells - 1)
    /\ focus' = i
    /\ twin' = [twin EXCEPT !.focus = i]
    /\ UNCHANGED <<numberOfDigits, code, queue, children, mounted, event, onCompleteCalls,
                   alphanumeric, cells, history>>

TwinKeyDown(index, key, metaKey, ctrlKey) ==
    /\ twin.active
    /\ event = NoEvent
    /\ index # NaN
    /\ Replayed(KeyboardEvent(index, key, metaKey, ctrlKey, FALSE))
    /\ KeyDown(index, key, metaKey, ctrlKey)
    /\ twin' = Recorded(KeyboardEvent(index, key, metaKey, ctrlKey, FALSE))
    /\ UNCHANGED history

TwinPaste(index, pasted) ==
    /\ twin.active
    /\ event = NoEvent
    /\ index # NaN
    /\ Replayed(ClipboardEvent(index, pasted))
    /\ Paste(index, pasted)
    /\ twin' = Recorded(ClipboardEvent(index, pasted))
    /\ UNCHANGED history

\* the instance that has rendered waits and the other one takes its turn
TakeTurns ==
    /\ twin.active
    /\ event = NoEvent
    /\ IF twin.turn = "first" THEN twin.replay # NoEvent ELSE twin.replay = NoEvent
    /\ code' = twin.code
    /\ focus' = twin.focus
    /\ alphanumeric' = twin.alphanumeric
    /\ UNCHANGED <<numberOfDigits, queue, children, mounted, event, onCompleteCalls,
                   history>>
    /\ cells' = RenderChildren(children, code)'
    /\ twin' = [twin EXCEPT !.turn = IF twin.turn = "first" THEN "second" ELSE "first",
                            !.code = code, !.focus = focus,
                            !.alphanumeric = alphanumeric]

NextTwin ==
    \/ \E i \in 0..(MaxChildren - 1) : TwinFocusCell(i)
    \/ \E index \in 0..(MaxChildren - 1), key \in KeyValues, metaKey \in BOOLEAN,
          ctrlKey \in BOOLEAN : TwinKeyDown(index, key, metaKey, ctrlKey)
    \/ \E index \in 0..(MaxChildren - 1), pasted \in ClipboardTexts :
          TwinPaste(index, pasted)
    \/ Render
    \/ TakeTurns

SpecTwin == InitTwin /\ [][NextTwin]_vars

\* The component with the code before the last typed character kept on the
\* side: history is set when a character key is handled on a cell that is not
\* the last one, kept through the Backspace on the next cell that follows it,
\* and dropped by every other event.
TypedAt(index, key, metaKey) ==
    /\ ~ReturnsEarly(key, metaKey)
    /\ ~isBackspace(key)
    /\ IsSingleUnit(key)
    /\ index < numberOfDigits - 1

DeletedAfter(index, key, metaKey) ==
    /\ ~ReturnsEarly(key, metaKey)
    /\ isBackspace(key)
    /\ history.stage = "typed"
    /\ index = history.index + 1

TrackedFocusCell(i) ==
    /\ event = NoEvent
    /\ i \in 0..(Cells - 1)
    /\ focus' = i
    /\ history' = NoHistory
    /\ UNCHANGED <<numberOfDigits, code, queue, children, mounted, event, onCompleteCalls,
                   alphanumeric, cells, twin>>

TrackedKeyDown(index, key, metaKey, ctrlKey) ==
    /\ event = NoEvent
    /\ index # NaN
    /\ KeyDown(index, key, metaKey, ctrlKey)
    /\ history' =
          IF TypedAt(index, key, metaKey)
          THEN [stage |-> "typed", index |-> index, code |-> code]
          ELSE IF DeletedAfter(index, key, metaKey)
          THEN [history EXCEPT !.stage = "deleted"]
          ELSE NoHistory
    /\ UNCHANGED twin

TrackedPaste(index, pasted) ==
    /\ event = NoEvent
    /\ index # NaN
    /\ Paste(index, pasted)
    /\ history' = NoHistory
    /\ UNCHANGED twin

NextTracked ==
    \/ \E i \in 0..(MaxChildren - 1) : TrackedFocusCell(i)
    \/ \E index \in 0..(MaxChildren - 1), key \in KeyValues, metaKey \in BOOLEAN,
          ctrlKey \in BOOLEAN : TrackedKeyDown(index, key, metaKey, ctrlKey)
    \/ \E index \in 0..(MaxChildren - 1), pasted \in ClipboardTexts :
          TrackedPaste(index, pasted)
    \/ Render

SpecTracked == Init /\ [][NextTracked]_vars

\* ======================================================================
\* Properties
\* ======================================================================
\* the cells in the container are the cells declared at first mount
CellsAsDeclared == mounted /\ Len(children) = numberOfDigits

\* a keydown or a paste is being dispatched: the handler has returned (focus is
\* moved, the update is queued) and the step that follows applies the update
KeyDispatched == event.type = "keydown"
PasteDispatched == event.type = "paste"

\* the V key with Cmd (metaKey) or with Ctrl
PasteCombination(e) == e.key = <<"v">> /\ (e.metaKey \/ e.ctrlKey)

\* every position but those of the set keeps its value; a position past the end
\* of an array reads as Undefined
SameExcept(before, after, changed) ==
    \A k \in 0..(Len(before) + Len(after)) :
        k \notin changed => At(after, k) = At(before, k)

\* -------------------------------------------------------------------- C1
\* C1 (as claimed): in every reachable state of a mounted component the code has
\* exactly numberOfDigits positions, whatever the key events, paste events and
\* child lists that came before.
C1_LengthIsNumberOfDigits == mounted => Len(code) = numberOfDigits

C4_PasteWholeCode ==
    [][(PasteDispatched /\ CellsAsDeclared /\ Len(event.text) >= numberOfDigits)
        => /\ Len(code') = numberOfDigits
           /\ \A k \in 0..(numberOfDigits - 1) : At(code', k) = <<event.text[k + 1]>>
           /\ focus' = numberOfDigits - 1]_vars

\* -------------------------------------------------------------------- C5
\* C5 (as claimed): a paste of a text of length L < N at position i of the declared
\* cells overwrites positions i..i+L-1 (those below N) with the pasted code units
\* in order, clears positions i+L..N-1, leaves positions 0..i-1 unchanged and
\* moves focus to i + L, for every i in 0..N-1.
C5_Original ==
    [][(PasteDispatched /\ CellsAsDeclared /\ Len(event.text) < numberOfDigits)
        => LET i == event.index
               L == Len(event.text)
           IN  /\ \A k \in i..(numberOfDigits - 1) :
                      At(code', k) = IF k < i + L THEN <<event.text[k - i + 1]>>
                                     ELSE EmptyString
               /\ SameExcept(code, code', i..(numberOfDigits - 1))
               /\ focus' = i + L]_vars

\* C5 (amended): the same for the code; focus moves to i + L when i + L < N and
\* stays on i when i + L >= N.
C5_PasteFromIndex ==
    [][(PasteDispatched /\ CellsAsDeclared /\ Len(event.text) < numberOfDigits)
        => LET i == event.index
               L == Len(event.text)
           IN  /\ \A k \in i..(numberOfDigits - 1) :
                      At(code', k) = IF k < i + L THEN <<event.text[k - i + 1]>>
                                     ELSE EmptyString
               /\ SameExcept(code, code', i..(numberOfDigits - 1))
               /\ focus' = IF i + L < numberOfDigits THEN i + L ELSE i]_vars

\* C5 witness: one code unit pasted in the last of two cells, the first one
\* filled: the focus request for cell 2 found no cell and focus is still on 1.
C5_Witness ==
    /\ PasteDispatched /\ CellsAsDeclared
    /\ numberOfDigits = 2 /\ event.index = 1 /\ event.text = <<"1">>
    /\ At(code, 0) # EmptyString
    /\ focus = 1
    /\ At(ApplyQueue(code, queue), 0) = At(code, 0)
    /\ At(ApplyQueue(code, queue), 1) = <<"1">>

\* -------------------------------------------------------------------- C6
\* arr.join("")
RECURSIVE Join(_)
Join(arr) == IF arr = <<>> THEN <<>> ELSE Head(arr) \o Join(Tail(arr))

\* one of the N positions holds no character
HasEmpty(arr) ==
    \E k \in 0..(numberOfDigits - 1) : At(arr, k) \in {EmptyString, Undefined}

\* C6 (as claimed): when a key or paste event changes the code and the code it
\* leaves has no empty position, the completion callback is invoked with the
\* characters of that code joined in order.
C6_CallbackOnComplete ==
    [][(KeyDispatched \/ PasteDispatched) /\ code' # code /\ ~HasEmpty(code')
        => onCompleteCalls' = Append(onCompleteCalls, Join(code'))]_vars

\* -------------------------------------------------------------------- C7
\* C7 (as claimed): over the key and paste events, the completion callback fires
\* exactly once in a step that takes the code from having an empty position to
\* having none, and does not fire in any other step.
C7_CallbackOncePerFill ==
    [][(KeyDispatched \/ PasteDispatched)
        => IF HasEmpty(code) /\ ~HasEmpty(code')
           THEN Len(onCompleteCalls') = Len(onCompleteCalls) + 1
           ELSE onCompleteCalls' = onCompleteCalls]_vars

\* -------------------------------------------------------------------- C8
\* C8 (as claimed): a keydown of the V key with Cmd or with Ctrl is ignored by the
\* key handler: its default is not prevented, no update is queued and focus stays
\* on the cell that received it.
C8_PasteCombinationIgnored ==
    (KeyDispatched /\ PasteCombination(event))
        => /\ ~event.defaultPrevented
           /\ queue = <<>>
           /\ focus = event.index

C10_OtherKeysChangeNothing ==
    [][(KeyDispatched /\ event.key # Backspace /\ Len(event.key) # 1)
        => /\ queue = <<>>
           /\ code' = code
           /\ focus = event.index
           /\ focus' = event.index]_vars

\* C10 witness: Enter, no modifier held, received by the second of two cells while
\* the first holds a character: nothing is queued and focus is where it was.
C10_Witness ==
    /\ KeyDispatched /\ event.key = Enter /\ ~event.metaKey /\ ~event.ctrlKey
    /\ event.defaultPrevented
    /\ numberOfDigits = 2 /\ event.index = 1 /\ focus = 1
    /\ At(code, 0) # EmptyString
    /\ queue = <<>>

\* a position that holds a character
Filled(arr, p) == At(arr, p) \notin {EmptyString, Undefined}

\* C11 (as stated): a position goes from holding a character to holding the
\* empty string only in the step of a Backspace on that cell or on the cell
\* right after it; no other event, a paste in particular, empties a position.
C11_Original ==
    [][\A p \in 0..(Len(code) - 1) :
         (Filled(code, p) /\ At(code', p) = EmptyString)
             => (KeyDispatched /\ isBackspace(event.key) /\ event.index \in {p, p + 1})]_vars

\* C11 (amended): a position p goes from holding a character to holding the
\* empty string only in the step of a Backspace without the meta key on cell
\* p or p + 1, or of a paste at cell i of a text of L < N code units with
\* i + L <= p < N.
C11_FilledToEmpty ==
    [][\A p \in 0..(Len(code) - 1) :
         (Filled(code, p) /\ At(code', p) = EmptyString)
             => \/ /\ KeyDispatched
                   /\ isBackspace(event.key)
                   /\ ~event.metaKey
                   /\ event.index \in {p, p + 1}
                \/ /\ PasteDispatched
                   /\ Len(event.text) < numberOfDigits
                   /\ event.index + Len(event.text) <= p
                   /\ p < numberOfDigits]_vars

\* C11: a one-unit text pasted in cell 0 of two filled cells empties cell 1
C11_Witness ==
    /\ PasteDispatched
    /\ numberOfDigits = 2
    /\ event.index = 0
    /\ Len(event.text) = 1
    /\ Filled(code, 0)
    /\ Filled(code, 1)
    /\ At(ApplyQueue(code, queue), 1) = EmptyString

ChangeDispatched == event.type = "change"

\* C12: the change event of a cell is discarded: it leaves every position of
\* the code as it was, and the code of the mounted component changes only in
\* the step of a key event or of a paste event.
C12_ChangeDiscarded ==
    [][/\ ChangeDispatched => (queue = <<>> /\ code' = code /\ event.defaultPrevented)
       /\ (mounted' /\ code' # code) => (KeyDispatched \/ PasteDispatched)]_vars

\* C12: a character typed through a change event in cell 1, next to a filled cell 0
C12_Witness ==
    /\ ChangeDispatched
    /\ event.index = 1
    /\ event.text = <<"1">>
    /\ Filled(code, 0)
    /\ ApplyQueue(code, queue) = code

C13_PasteWitness ==
    /\ PasteDispatched
    /\ event.index = NaN
    /\ Len(event.text) = 2
    /\ numberOfDigits = 2
    /\ queue = <<>>

C14_ThrowWitness ==
    /\ ~mounted
    /\ numberOfDigits = 1
    /\ Len(children) = 2
    /\ children[1] = "PassCodeInput"
    /\ children[2] = "div"

\* no call of moveFocus
NoRequest == NaN

\* the index the handler of event e passes to moveFocus
FocusRequest(e) ==
    CASE e.type = "keydown" ->
             IF e.metaKey THEN NoRequest
             ELSE IF e.key = Backspace THEN e.index - 1
             ELSE IF Len(e.key) = 1 THEN e.index + 1
             ELSE NoRequest
      [] e.type = "paste" ->
             IF Len(e.text) >= numberOfDigits THEN numberOfDigits - 1
             ELSE e.index + Len(e.text)
      [] OTHER -> NoRequest

\* C15 (as stated): focus is not moved before the code update of the same event
\* has been applied: while an update of the event being dispatched is still
\* waiting to be applied, focus is on the cell that received the event.
C15_Original == (event # NoEvent /\ queue # <<>>) => focus = event.index

\* C15 (amended): the handler of an event moves focus first, while the code and
\* the rendered cells are still those of before the event; the code update is
\* applied and the cells are rendered with it after the handler has returned,
\* and that step leaves focus where the handler put it.
C15_FocusThenRender ==
    [][/\ (event = NoEvent /\ event' # NoEvent)
           => /\ code' = code
              /\ cells' = cells
              /\ focus' = IF FocusRequest(event') \in 0..(Cells - 1)
                          THEN FocusRequest(event') ELSE focus
       /\ event # NoEvent
           => /\ focus' = focus
              /\ code' = ApplyQueue(code, queue)
              /\ cells' = RenderChildren(children, code')
              /\ event' = NoEvent]_vars

\* C15: a character typed in cell 0 of two: focus is on cell 1 while the code
\* and cell 0 are still empty
C15_Witness ==
    /\ KeyDispatched
    /\ numberOfDigits = 2
    /\ event.index = 0
    /\ event.key = <<"1">>
    /\ queue = <<CharUpdater(0, <<"1">>)>>
    /\ focus = 1
    /\ At(code, 0) = EmptyString
    /\ cells[1].value = EmptyString

\* C16: events take effect in the order of their delivery, each on the code the
\* event before it has left: a short paste delivered while the update of an
\* earlier event still waits for its render starts from the code that holds
\* that event's change.
C16_EventsAppliedInOrder ==
    (PasteDispatched /\ Len(event.text) < numberOfDigits /\ Len(queue) = 2)
        => queue[2] = ValueUpdate(PasteLoop(ApplyUpdate(code, queue[1]), event.index,
                                            event.index, event.text))

\* C17: for every N >= 1 the state right after construction is a code of N
\* positions that all hold the empty string, and no completion callback has
\* been invoked.  (The formula speaks of the first state of a behaviour.)
C17_InitialState ==
    /\ mounted =>
          /\ numberOfDigits >= 1
          /\ Len(code) = numberOfDigits
          /\ \A k \in 0..(numberOfDigits - 1) : At(code, k) = EmptyString
          /\ onCompleteCalls = <<>>
    /\ [][TRUE]_vars

\* C17: a two-cell component as constructed: nothing focused, nothing queued
C17_Witness ==
    /\ mounted
    /\ numberOfDigits = 2
    /\ code = <<EmptyString, EmptyString>>
    /\ focus = NoFocus
    /\ event = NoEvent
    /\ queue = <<>>
    /\ onCompleteCalls = <<>>
    /\ children = <<"PassCodeInput", "PassCodeInput">>

\* exactly one character: one code point, of one or two code units
OneCharacter(s) == s # Undefined /\ Len(ArrayFrom(s)) = 1

\* C18: in every reachable state each position 0..N-1 of the code holds the
\* empty string or exactly one character, never a string of several characters
\* and never an undefined value.
C18_PositionsHoldOneCharacter ==
    mounted => \A k \in 0..(numberOfDigits - 1) :
                   At(code, k) = EmptyString \/ OneCharacter(At(code, k))

\* C20: after a key or paste event the focused cell is a position in 0..N-1,
\* and a focus request for an index outside 0..N-1 (-1 after Backspace on cell
\* 0, N after a character on cell N-1, i+L >= N after a short paste) leaves
\* focus on the cell that received the event.
C20_FocusInRange ==
    [][((KeyDispatched \/ PasteDispatched) /\ CellsAsDeclared)
          => /\ focus' \in 0..(numberOfDigits - 1)
             /\ (/\ FocusRequest(event) # NoRequest
                 /\ FocusRequest(event) \notin 0..(numberOfDigits - 1))
                    => focus' = event.index]_vars

\* C20: a one-unit text pasted in the last of two cells asks for cell 2
C20_Witness ==
    /\ PasteDispatched
    /\ CellsAsDeclared
    /\ numberOfDigits = 2
    /\ event.index = 1
    /\ Len(event.text) = 1
    /\ FocusRequest(event) = 2
    /\ focus = 1

\* C20: Backspace on cell 0 asks for cell -1
C20_BackspaceWitness ==
    /\ KeyDispatched
    /\ CellsAsDeclared
    /\ event.key = Backspace
    /\ ~event.metaKey
    /\ event.index = 0
    /\ FocusRequest(event) = -1
    /\ focus = 0

\* both instances have handled the same events
SecondHasRendered ==
    twin.active /\ twin.turn = "second" /\ twin.replay = NoEvent /\ event = NoEvent

\* C19: the alphanumeric flag has no influence on the code: two instances of
\* the same N, one with the flag and one without, that receive the same key
\* and paste events have the same code and the same focused cell after every
\* event; and without the flag a character that is no digit, typed or pasted,
\* is stored like any other.
C19_FlagHasNoInfluence ==
    /\ SecondHasRendered
          => /\ alphanumeric # twin.alphanumeric
             /\ code = twin.code
             /\ focus = twin.focus
    /\ (~alphanumeric /\ KeyDispatched /\ event.key = <<"v">> /\ ~event.metaKey)
          => queue = <<CharUpdater(event.index, <<"v">>)>>
    /\ (~alphanumeric /\ PasteDispatched /\ Len(event.text) >= 1
           /\ Len(event.text) < numberOfDigits)
          => At(ApplyQueue(code, queue), event.index) = <<event.text[1]>>

\* C19: both instances hold the non-digit "v" in cell 0 and have focus on cell
\* 1, the second one, which has just rendered, being the one without the flag
C19_Witness ==
    /\ SecondHasRendered
    /\ ~alphanumeric
    /\ twin.alphanumeric
    /\ numberOfDigits = 2
    /\ code = <<(<<"v">>), EmptyString>>
    /\ twin.code = code
    /\ focus = 1
    /\ twin.focus = 1

\* -------------------------------------------------------------------- C21
\* a character has been typed in cell history.index, Backspace has been pressed
\* in the cell that took focus, and both events have been rendered
TypedThenDeleted == history.stage = "deleted" /\ event = NoEvent

\* C21: for i < N-1, typing a character in cell i and then pressing Backspace
\* in the cell that received focus, i+1, returns focus to i and leaves
\* positions i and i+1 empty and every other position as it was before the
\* character was typed; so the code is the code of before exactly when
\* positions i and i+1 were both empty then.
C21_TypeThenDelete ==
    TypedThenDeleted =>
        /\ focus = history.index
        /\ At(code, history.index) = EmptyString
        /\ At(code, history.index + 1) = EmptyString
        /\ SameExcept(history.code, code, {history.index, history.index + 1})
        /\ code = history.code
              <=> /\ At(history.code, history.index) = EmptyString
                  /\ At(history.code, history.index + 1) = EmptyString

\* C21: a character typed over the filled cell 0 of two filled cells and then
\* deleted from cell 1: both cells are empty, which is not the code of before
C21_Witness ==
    /\ TypedThenDeleted
    /\ numberOfDigits = 2
    /\ history.index = 0
    /\ history.code = <<(<<"1">>), (<<"1">>)>>
    /\ code = <<EmptyString, EmptyString>>
    /\ focus = 0

\* C21: the round trip on two empty cells
C21_RoundTripWitness ==
    /\ TypedThenDeleted
    /\ numberOfDigits = 2
    /\ history.index = 0
    /\ history.code = <<EmptyString, EmptyString>>
    /\ code = history.code
    /\ focus = 0
====
